---- MODULE Spec2Model ----
(***************************************************************************)
(* Vehicle rental console application (Dns2690/Rentals).                   *)
(*                                                                         *)
(* The model covers the session shell (login, main menu), the vehicle      *)
(* registry (vehiculo_service.py) and the rental workflow                  *)
(* (alquiler_service.py) over the two JSON stores vehicles.json and        *)
(* rentals.json.  Every menu operation is one action: it reads the         *)
(* stores, runs the handler to its end (or to the exception that ends the  *)
(* process) and writes what the handler writes.                            *)
(***************************************************************************)
EXTENDS Integers, Sequences, FiniteSets, TLC

(* ------------------------------ bounds --------------------------------- *)

\* Largest number of records the rental store may hold in the model.
MaxRentals == 2

(* --------------------------- input alphabets --------------------------- *)

\* Six-character plates a user may type (create_vehicle accepts len(x) == 6).
Plates == {"AAA111", "BBB222"}

\* Identification numbers an operator may type at "Cédula del cliente".
ClientIds == {"1001", "1002"}

\* Brand inputs of create_vehicle / edit_vehicle.
Brands == {"Kia", "Mazda"}

\* Date strings typed at the two date prompts of create_rental in the menus.
MenuDates == {<<"2025-01-01", "2025-01-05">>}

\* A dict key that is not present in a persisted record.
NoKey == "<no key>"

\* No user is logged in (Sistema.logged_user = None).
None == [user |-> "-", id_user |-> "-", rol |-> "-"]

\* Records of users.json + clients.json, as loaded by Sistema.__init__.
Users ==
  { [user |-> "admin", id_user |-> "9001", rol |-> "administrador"],
    [user |-> "asist", id_user |-> "9002", rol |-> "asistente"],
    [user |-> "clara", id_user |-> "1001", rol |-> "cliente"] }

\* A vehicle record of the data file, with the "state" key the readers use.
StoredVehicle(plate) ==
  [plate |-> plate, brand |-> "Kia", state |-> "DISPONIBLE", estate |-> NoKey]

\* The vehicle stores a run may start from: no file, or a data file.
InitialVehicles ==
  { << >>,
    << StoredVehicle("AAA111") >>,
    << StoredVehicle("AAA111"), StoredVehicle("BBB222") >> }

(* ----------------------------- date text ------------------------------- *)

\* Strings a user may type at a date prompt: zero-padded dates, dates without
\* padding, impossible dates and text in another form.
DateInputs ==
  {"2025-01-01", "2025-01-05", "2025-09-01", "2025-10-01", "2025-9-01", "2025-1-5",
   "2024-02-29", "2025-02-29", "2025-13-01", "01-05-2025", "2025/01/05", ""}

\* The characters of each typed string, first to last.
DateText ==
  ("2025-01-01" :> <<"2", "0", "2", "5", "-", "0", "1", "-", "0", "1">>) @@
  ("2025-01-05" :> <<"2", "0", "2", "5", "-", "0", "1", "-", "0", "5">>) @@
  ("2025-09-01" :> <<"2", "0", "2", "5", "-", "0", "9", "-", "0", "1">>) @@
  ("2025-10-01" :> <<"2", "0", "2", "5", "-", "1", "0", "-", "0", "1">>) @@
  ("2025-9-01" :> <<"2", "0", "2", "5", "-", "9", "-", "0", "1">>) @@
  ("2025-1-5" :> <<"2", "0", "2", "5", "-", "1", "-", "5">>) @@
  ("2024-02-29" :> <<"2", "0", "2", "4", "-", "0", "2", "-", "2", "9">>) @@
  ("2025-02-29" :> <<"2", "0", "2", "5", "-", "0", "2", "-", "2", "9">>) @@
  ("2025-13-01" :> <<"2", "0", "2", "5", "-", "1", "3", "-", "0", "1">>) @@
  ("01-05-2025" :> <<"0", "1", "-", "0", "5", "-", "2", "0", "2", "5">>) @@
  ("2025/01/05" :> <<"2", "0", "2", "5", "/", "0", "1", "/", "0", "5">>) @@
  ("" :> <<>>)

Chars(s) == DateText[s]

\* Code point of a character (Python compares strings by code point).
Ord(c) ==
  CASE c = "-" -> 45 [] c = "/" -> 47
    [] c = "0" -> 48 [] c = "1" -> 49 [] c = "2" -> 50 [] c = "3" -> 51
    [] c = "4" -> 52 [] c = "5" -> 53 [] c = "6" -> 54 [] c = "7" -> 55
    [] c = "8" -> 56 [] c = "9" -> 57

IsDigit(c) == Ord(c) >= 48 /\ Ord(c) <= 57

AllDigits(t) == \A i \in 1..Len(t) : IsDigit(t[i])

RECURSIVE NumberOf(_)
\* int() of a sequence of digits.
NumberOf(t) ==
  IF t = << >> THEN 0
  ELSE NumberOf(SubSeq(t, 1, Len(t) - 1)) * 10 + (Ord(t[Len(t)]) - 48)

\* Days of month m of year y in the Gregorian calendar.
DaysInMonth(y, m) ==
  IF m \in {4, 6, 9, 11} THEN 30
  ELSE IF m = 2
    THEN IF (y % 4 = 0 /\ y % 100 # 0) \/ y % 400 = 0 THEN 29 ELSE 28
    ELSE 31

\* datetime.strptime(s, "%Y-%m-%d"): <<year, month, day>>, or << >> when it
\* raises.  %Y is four digits; %m and %d are one or two digits; the day must
\* exist in the month.
ParseDate(s) ==
  LET t == Chars(s)
      dashes == {i \in 1..Len(t) : t[i] = "-"}
  IN  IF Cardinality(dashes) # 2 THEN << >>
      ELSE
        LET a == CHOOSE i \in dashes : \A j \in dashes : i <= j
            b == CHOOSE i \in dashes : \A j \in dashes : i >= j
            ys == SubSeq(t, 1, a - 1)
            ms == SubSeq(t, a + 1, b - 1)
            ds == SubSeq(t, b + 1, Len(t))
        IN  IF /\ Len(ys) = 4 /\ AllDigits(ys)
               /\ Len(ms) \in {1, 2} /\ AllDigits(ms)
               /\ Len(ds) \in {1, 2} /\ AllDigits(ds)
               /\ NumberOf(ys) >= 1
               /\ NumberOf(ms) >= 1 /\ NumberOf(ms) <= 12
               /\ NumberOf(ds) >= 1
               /\ NumberOf(ds) <= DaysInMonth(NumberOf(ys), NumberOf(ms))
              THEN <<NumberOf(ys), NumberOf(ms), NumberOf(ds)>>
              ELSE << >>

\* validate_date: True unless strptime raises.
ValidateDate(s) == ParseDate(s) # << >>

RECURSIVE SeqGreater(_, _)
\* a > b on character sequences, as Python compares str values.
SeqGreater(a, b) ==
  IF a = << >> THEN FALSE
  ELSE IF b = << >> THEN TRUE
  ELSE IF Ord(a[1]) # Ord(b[1]) THEN Ord(a[1]) > Ord(b[1])
  ELSE SeqGreater(Tail(a), Tail(b))

\* x > start_date on the typed strings.
StringGreater(x, y) == SeqGreater(Chars(x), Chars(y))

\* The check of the "Fecha de inicio" prompt.
AcceptsStartDate(x) == ValidateDate(x)

\* The check of the "Fecha de devolución" prompt:
\* validate_date(x) and x > start_date.
AcceptsEndDate(x, start_date) == ValidateDate(x) /\ StringGreater(x, start_date)

(* ------------------------- concurrent sessions ------------------------- *)

\* Two terminals running the program on the same Docs/ directory.
Sessions == {1, 2}

\* A session that is not inside update_rental_status.
Idle ==
  [at |-> "menu", rentals |-> << >>, vehicles |-> << >>, plate |-> "-",
   client |-> "-", from_status |-> "-", to_status |-> "-", result |-> "-"]

NoHandlers == [s \in Sessions |-> Idle]

\* Nothing typed at the login prompts yet.
NoEntry == [user |-> "-", password |-> "-"]

VARIABLES
  vehicles,     \* Docs/vehicles.json: sequence of vehicle records
  rentals,      \* Docs/rentals.json: sequence of rental records
  logged_user,  \* Sistema.logged_user
  attemps,      \* Sistema.login's attempt counter
  pc,           \* where the process is: login, a menu loop, or ended
  last,         \* the last operation run and the message it printed
  running,      \* update_rental_status calls in progress in concurrent sessions
  log,          \* bitacora.txt: lines of log_record as <<user, action>> (SpecLogin)
  entered       \* text typed at the last "Usuario"/"Contraseña" prompts (SpecLogin)

vars == <<vehicles, rentals, logged_user, attemps, pc, last, running, log, entered>>

(* ------------------------------ helpers -------------------------------- *)

Min(S) == CHOOSE x \in S : \A y \in S : x <= y

\* What an operation reports: the operation, its outcome and its inputs.
Report(op, result, plate, client) ==
  [op |-> op, result |-> result, plate |-> plate, client |-> client]

NoReport == Report("-", "-", "-", "-")

\* next((v for v in vehicles if v["plate"] == plate), None); 0 stands for None.
FindVehicle(vs, plate) ==
  LET I == {i \in 1..Len(vs) : vs[i].plate = plate}
  IN  IF I = {} THEN 0 ELSE Min(I)

\* A duplicate check that never finds the plate.
PlateExistsNever(vs, plate) == FALSE

\* any(v["plate"] == plate for v in vehicles) of create_vehicle.
PlateExists(vs, plate) == \E i \in 1..Len(vs) : vs[i].plate = plate

\* An edit that also resets the state key of the record.
EditFieldsFreeing(vs, i, brand) ==
  [vs EXCEPT ![i].brand = brand, ![i].state = "DISPONIBLE"]

\* The assignments of edit_vehicle to the record at index i: brand stands for
\* brand, model, year, color and passenger; no other key is assigned.
EditFields(vs, i, brand) == [vs EXCEPT ![i].brand = brand]

\* A client id that is always the typed one.
ResolveClientIdTyped(user, typed) == typed

\* client_id of create_rental: the session's own id for a cliente, the typed
\* one for every other role.
ResolveClientId(user, typed) ==
  IF user.rol = "cliente" THEN user.id_user ELSE typed

\* A listing without the cliente filter.
ListedRentalsAll(rs, user) == rs

RECURSIVE ListedRentals(_, _)
\* The records list_rentals prints, in order: its loop skips a record when the
\* user is a cliente and the record's id_client is not the user's id_user.
\* An empty store prints "No hay alquileres registrados." and no record.
ListedRentals(rs, user) ==
  IF rs = << >> THEN << >>
  ELSE IF user.rol = "cliente" /\ Head(rs).id_client # user.id_user
    THEN ListedRentals(Tail(rs), user)
    ELSE <<Head(rs)>> \o ListedRentals(Tail(rs), user)

\* list_vehicles prints v['state'] of every record: a record without the key
\* raises KeyError.
ListVehiclesRaises(vs) == \E i \in 1..Len(vs) : vs[i].state = NoKey

\* A read of the state key that never shows a value.
StateOfBlank(v) == ""

\* vehicle.get("state", "").upper(); every state value written is upper case.
StateOf(v) == IF v.state = NoKey THEN "" ELSE v.state

\* Vehicle(...).to_dict(): the constructor sets self.estate, not self.state.
NewVehicle(plate, brand) ==
  [plate |-> plate, brand |-> brand, state |-> NoKey, estate |-> "DISPONIBLE"]

\* A constructor that starts a rental in ACTIVO.
NewRentalActive(plate, client, start_date, end_date) ==
  [plate |-> plate, id_client |-> client, start_date |-> start_date,
   end_date |-> end_date, state |-> "ACTIVO"]

\* Rental(...).to_dict(): a new rental is PREPARADO.
NewRental(plate, client, start_date, end_date) ==
  [plate |-> plate, id_client |-> client, start_date |-> start_date,
   end_date |-> end_date, state |-> "PREPARADO"]

\* An assignment to the vehicle's state that is lost before the save.
SetVehicleStateLost(vs, i, value) == vs

\* vehicle["state"] = value on the record at index i.
SetVehicleState(vs, i, value) == [vs EXCEPT ![i].state = value]

\* A loop condition that does not compare the client id.
RentalMatchesAnyClient(r, plate, client, from_status) ==
  /\ r.plate = plate
  /\ r.state = from_status

\* A loop condition that does not compare the state with from_status.
RentalMatchesAnyState(r, plate, client, from_status) ==
  /\ r.plate = plate
  /\ r.id_client = client

\* The condition of update_rental_status's loop.
RentalMatches(r, plate, client, from_status) ==
  /\ r.plate = plate
  /\ r.id_client = client
  /\ r.state = from_status

\* A save that writes only the record that was changed.
SetRentalStateAlone(rs, i, value) == << [rs[i] EXCEPT !.state = value] >>

\* r["state"] = to_status on the record at index i, then save_rentals(rentals).
SetRentalState(rs, i, value) == [rs EXCEPT ![i].state = value]

\* The last record that matches; 0 for none.
FirstMatchLast(rs, plate, client, from_status) ==
  LET I == {i \in 1..Len(rs) : RentalMatches(rs[i], plate, client, from_status)}
  IN  IF I = {} THEN 0 ELSE CHOOSE x \in I : \A y \in I : x >= y

\* The first record the loop of update_rental_status matches; 0 for none.
FirstMatch(rs, plate, client, from_status) ==
  LET I == {i \in 1..Len(rs) : RentalMatches(rs[i], plate, client, from_status)}
  IN  IF I = {} THEN 0 ELSE Min(I)

\* menu_rentals option 3: update_rental_status("PREPARADO", "ACTIVO").
DeliverTransition == <<"PREPARADO", "ACTIVO">>

\* An option 4 that receives a vehicle that was never delivered.
ReceiveTransitionSkipping == <<"PREPARADO", "DEVUELTO">>

\* menu_rentals option 4: update_rental_status("ACTIVO", "DEVUELTO").
ReceiveTransition == <<"ACTIVO", "DEVUELTO">>

StaffAll == {"administrador", "asistente", "cliente"}

\* The roles menu_rentals offers options 3 and 4 to.
Staff == {"administrador", "asistente"}

(* ------------------------------- Init ---------------------------------- *)

Init ==
  /\ vehicles \in InitialVehicles
  /\ rentals = << >>
  /\ logged_user = None
  /\ attemps = 1
  /\ pc = "login"
  /\ last = NoReport
  /\ running = NoHandlers
  /\ log = << >>
  /\ entered = NoEntry

(* --------------------------- session shell ----------------------------- *)

\* Sistema.login, one pass of its loop: the typed credentials match a record
\* (cred \in Users) or none (cred = None).  iniciar enters the main menu when
\* logged_user is set.
Login(cred) ==
  /\ pc = "login"
  /\ attemps <= 3
  /\ IF cred \in Users
       THEN /\ logged_user' = cred
            /\ pc' = "main"
            /\ attemps' = attemps
       ELSE /\ logged_user' = logged_user
            /\ attemps' = attemps + 1
            /\ pc' = IF attemps + 1 <= 3 THEN "login" ELSE "denied"
  /\ last' = Report("login", IF cred \in Users THEN "ok" ELSE "rejected", "-", "-")
  /\ UNCHANGED <<vehicles, rentals, running, log, entered>>

\* Sistema.menu_principal, the options that lead to the modelled menus.
\* cliente: 2 rentals, 3 exit; other roles: 2 vehicles, 4 rentals, 5 exit.
MainToRentals ==
  /\ pc = "main"
  /\ pc' = "menu_rentals"
  /\ last' = Report("menu", "menu_rentals", "-", "-")
  /\ UNCHANGED <<vehicles, rentals, logged_user, attemps, running, log, entered>>

MainToVehicles ==
  /\ pc = "main"
  /\ logged_user.rol # "cliente"
  /\ pc' = "menu_vehicles"
  /\ last' = Report("menu", "menu_vehicles", "-", "-")
  /\ UNCHANGED <<vehicles, rentals, logged_user, attemps, running, log, entered>>

MainExit ==
  /\ pc = "main"
  /\ pc' = "exited"
  /\ last' = Report("menu", "exit", "-", "-")
  /\ UNCHANGED <<vehicles, rentals, logged_user, attemps, running, log, entered>>

\* "Volver al menú principal" of menu_rentals and menu_vehicles.
BackToMain ==
  /\ pc \in {"menu_rentals", "menu_vehicles"}
  /\ pc' = "main"
  /\ last' = Report("menu", "main", "-", "-")
  /\ UNCHANGED <<vehicles, rentals, logged_user, attemps, running, log, entered>>

\* A start that would bring the vehicle states in line with the rental store.
StartRecovering ==
  /\ pc \in {"exited", "crashed", "denied"}
  /\ pc' = "login"
  /\ logged_user' = None
  /\ attemps' = 1
  /\ last' = NoReport
  /\ vehicles' = [i \in 1..Len(vehicles) |->
                    [vehicles[i] EXCEPT !.state =
                       IF \E k \in 1..Len(rentals) :
                            /\ rentals[k].plate = vehicles[i].plate
                            /\ rentals[k].state # "DEVUELTO"
                         THEN "RENTADO" ELSE "DISPONIBLE"]]
  /\ UNCHANGED <<rentals, running, log, entered>>

\* The program is started again after a run ended: Sistema() and iniciar().
\* The stores are what the previous run left on disk.
Start ==
  /\ pc \in {"exited", "crashed", "denied"}
  /\ pc' = "login"
  /\ logged_user' = None
  /\ attemps' = 1
  /\ last' = NoReport
  /\ UNCHANGED <<vehicles, rentals, running, log, entered>>

(* -------------------------- vehicle registry --------------------------- *)

\* create_vehicle: a duplicate plate is refused, otherwise the record built
\* by Vehicle(...) is appended and the store is saved.
CreateVehicle(plate, brand) ==
  /\ pc = "menu_vehicles"
  /\ IF PlateExists(vehicles, plate)
       THEN /\ vehicles' = vehicles
            /\ last' = Report("create_vehicle", "already_exists", plate, "-")
       ELSE /\ vehicles' = Append(vehicles, NewVehicle(plate, brand))
            /\ last' = Report("create_vehicle", "ok", plate, "-")
  /\ UNCHANGED <<rentals, logged_user, attemps, pc, running, log, entered>>

\* list_vehicles from menu_vehicles option 2.
ListVehicles ==
  /\ pc = "menu_vehicles"
  /\ IF ListVehiclesRaises(vehicles)
       THEN /\ pc' = "crashed"
            /\ last' = Report("list_vehicles", "KeyError", "-", "-")
       ELSE /\ pc' = pc
            /\ last' = Report("list_vehicles", "ok", "-", "-")
  /\ UNCHANGED <<vehicles, rentals, logged_user, attemps, running, log, entered>>

\* edit_vehicle: the first record with the plate gets the typed brand ("" keeps
\* the current one); an invalid brand returns before save_vehicles.  The state
\* key is not among the edited fields.
EditVehicle(plate, brand) ==
  /\ pc = "menu_vehicles"
  /\ LET i == FindVehicle(vehicles, plate)
         b == IF brand = "" THEN vehicles[i].brand ELSE brand
     IN  IF i = 0
           THEN /\ vehicles' = vehicles
                /\ last' = Report("edit_vehicle", "not_found", plate, "-")
           ELSE IF b \notin Brands
             THEN /\ vehicles' = vehicles
                  /\ last' = Report("edit_vehicle", "invalid", plate, "-")
             ELSE /\ vehicles' = EditFields(vehicles, i, b)
                  /\ last' = Report("edit_vehicle", "ok", plate, "-")
  /\ UNCHANGED <<rentals, logged_user, attemps, pc, running, log, entered>>

\* delete_vehicle: every record with the plate is filtered out.
DeleteVehicle(plate) ==
  /\ pc = "menu_vehicles"
  /\ LET updated == SelectSeq(vehicles, LAMBDA v : v.plate # plate)
     IN  IF Len(updated) = Len(vehicles)
           THEN /\ vehicles' = vehicles
                /\ last' = Report("delete_vehicle", "not_found", plate, "-")
           ELSE /\ vehicles' = updated
                /\ last' = Report("delete_vehicle", "ok", plate, "-")
  /\ UNCHANGED <<rentals, logged_user, attemps, pc, running, log, entered>>

(* --------------------------- rental workflow --------------------------- *)

\* create_rental.  typed is what is typed at "Cédula del cliente" (asked only
\* of roles other than cliente); plate is the plate of the request; start_date
\* and end_date are the strings the two date prompts end up accepting
\* (input_validated asks again until its check passes).
CreateRental(plate, typed, start_date, end_date) ==
  /\ pc = "menu_rentals"
  /\ LET client_id == ResolveClientId(logged_user, typed)
         i == FindVehicle(vehicles, plate)
     IN  IF ListVehiclesRaises(vehicles)
           THEN /\ pc' = "crashed"
                /\ last' = Report("create_rental", "KeyError", plate, client_id)
                /\ UNCHANGED <<vehicles, rentals>>
           ELSE IF i = 0
             THEN /\ pc' = pc
                  /\ last' = Report("create_rental", "not_found", plate, client_id)
                  /\ UNCHANGED <<vehicles, rentals>>
             ELSE IF StateOf(vehicles[i]) = "RENTADO"
               THEN /\ pc' = pc
                    /\ last' = Report("create_rental", "unavailable", plate, client_id)
                    /\ UNCHANGED <<vehicles, rentals>>
               ELSE /\ Len(rentals) < MaxRentals
                    /\ AcceptsStartDate(start_date)
                    /\ AcceptsEndDate(end_date, start_date)
                    /\ rentals' = Append(rentals,
                                         NewRental(plate, client_id, start_date, end_date))
                    /\ vehicles' = SetVehicleState(vehicles, i, "RENTADO")
                    /\ pc' = pc
                    /\ last' = Report("create_rental", "ok", plate, client_id)
  /\ UNCHANGED <<logged_user, attemps, running, log, entered>>

\* list_rentals: reads the rental store, writes nothing.
ListRentals ==
  /\ pc = "menu_rentals"
  /\ last' = Report("list_rentals", "ok", "-", "-")
  /\ UNCHANGED <<vehicles, rentals, logged_user, attemps, pc, running, log, entered>>

\* update_rental_status(from_status, to_status) with the typed plate and
\* client id.  The rental store is saved before the vehicle is looked up, so
\* a missing vehicle raises TypeError (None["state"]) after the rental write.
UpdateRentalStatus(from_status, to_status, plate, client) ==
  LET i == FirstMatch(rentals, plate, client, from_status)
      j == FindVehicle(vehicles, plate)
      op == "update_" \o to_status
  IN  IF i = 0
        THEN /\ last' = Report(op, "not_found", plate, client)
             /\ UNCHANGED <<vehicles, rentals, pc>>
        ELSE /\ rentals' = SetRentalState(rentals, i, to_status)
             /\ IF to_status = "DEVUELTO"
                  THEN IF j = 0
                         THEN /\ pc' = "crashed"
                              /\ last' = Report(op, "TypeError", plate, client)
                              /\ vehicles' = vehicles
                         ELSE /\ vehicles' = SetVehicleState(vehicles, j, "DISPONIBLE")
                              /\ pc' = pc
                              /\ last' = Report(op, "ok", plate, client)
                  ELSE /\ vehicles' = vehicles
                       /\ pc' = pc
                       /\ last' = Report(op, "ok", plate, client)

\* menu_rentals option 3, offered to administrador and asistente.
Deliver(plate, client) ==
  /\ pc = "menu_rentals"
  /\ logged_user.rol \in Staff
  /\ UpdateRentalStatus(DeliverTransition[1], DeliverTransition[2], plate, client)
  /\ UNCHANGED <<logged_user, attemps, running, log, entered>>

\* menu_rentals option 4, offered to administrador and asistente.
Receive(plate, client) ==
  /\ pc = "menu_rentals"
  /\ logged_user.rol \in Staff
  /\ UpdateRentalStatus(ReceiveTransition[1], ReceiveTransition[2], plate, client)
  /\ UNCHANGED <<logged_user, attemps, running, log, entered>>

(* ------------------------------ Next ----------------------------------- *)

Next ==
  \/ \E cred \in Users \cup {None} : Login(cred)
  \/ MainToRentals
  \/ MainToVehicles
  \/ MainExit
  \/ BackToMain
  \/ Start
  \/ \E p \in Plates, b \in Brands : CreateVehicle(p, b)
  \/ ListVehicles
  \/ \E p \in Plates, b \in Brands \cup {"", "K1"} : EditVehicle(p, b)
  \/ \E p \in Plates : DeleteVehicle(p)
  \/ \E p \in Plates, c \in ClientIds, d \in MenuDates :
       CreateRental(p, c, d[1], d[2])
  \/ ListRentals
  \/ \E p \in Plates, c \in ClientIds : Deliver(p, c)
  \/ \E p \in Plates, c \in ClientIds : Receive(p, c)

Spec == Init /\ [][Next]_vars

(* ------------------- the date prompts of create_rental ------------------ *)

\* The same program with every modelled text typed at the two date prompts of
\* create_rental (input_validated returns only a text its check accepts), and
\* without the operations that do not take part in a rental's creation.  The
\* client id typed by staff is one fixed id: the date checks do not read it.
NextDates ==
  \/ \E cred \in Users : Login(cred)
  \/ MainToRentals
  \/ \E p \in Plates, s \in DateInputs, e \in DateInputs :
       CreateRental(p, "1001", s, e)

DateSpec == Init /\ [][NextDates]_vars

(* ------------------------ the menus of each role ------------------------ *)

MaxRoleRentals == 1

\* The options of menu_users that call an operation.
UserOperations == {"create_user", "list_users", "edit_user", "delete_user"}

\* The options of menu_clients that call an operation, by role.
ClientMenu(rol) ==
  IF rol = "cliente"
    THEN {"view_own_client", "edit_own_client"}
    ELSE {"create_client", "list_clients", "edit_client", "delete_client"}

\* menu_principal, "Gestión de Usuarios": in the menu of roles other than
\* cliente only.
MainToUsers ==
  /\ pc = "main"
  /\ logged_user.rol # "cliente"
  /\ pc' = "menu_users"
  /\ last' = Report("menu", "menu_users", "-", "-")
  /\ UNCHANGED <<vehicles, rentals, logged_user, attemps, running, log, entered>>

\* menu_principal, "Mi perfil" (cliente) or "Gestión de Clientes" (other
\* roles): both call menu_clients(logged_user).
MainToClients ==
  /\ pc = "main"
  /\ pc' = "menu_clients"
  /\ last' = Report("menu", "menu_clients", "-", "-")
  /\ UNCHANGED <<vehicles, rentals, logged_user, attemps, running, log, entered>>

\* "Volver al menú principal" of menu_users and menu_clients.
BackFromRegistry ==
  /\ pc \in {"menu_users", "menu_clients"}
  /\ pc' = "main"
  /\ last' = Report("menu", "main", "-", "-")
  /\ UNCHANGED <<vehicles, rentals, logged_user, attemps, running, log, entered>>

\* An operation of menu_users.  It reads and writes the user store, which is
\* no part of the vehicle and rental stores.
UserRegistry(op) ==
  /\ pc = "menu_users"
  /\ last' = Report(op, "done", "-", "-")
  /\ UNCHANGED <<vehicles, rentals, logged_user, attemps, pc, running, log, entered>>

\* An operation of menu_clients, from the options of the session's role.  It
\* reads and writes the client store only.
ClientRegistry(op) ==
  /\ pc = "menu_clients"
  /\ op \in ClientMenu(logged_user.rol)
  /\ last' = Report(op, "done", "-", "-")
  /\ UNCHANGED <<vehicles, rentals, logged_user, attemps, pc, running, log, entered>>

NextRoles ==
  \/ \E cred \in Users \cup {None} : Login(cred)
  \/ MainToUsers
  \/ MainToVehicles
  \/ MainToClients
  \/ MainToRentals
  \/ MainExit
  \/ BackToMain
  \/ BackFromRegistry
  \/ Start
  \/ \E op \in UserOperations : UserRegistry(op)
  \/ \E op \in ClientMenu("cliente") \cup ClientMenu("administrador") :
       ClientRegistry(op)
  \/ \E p \in Plates, b \in Brands : CreateVehicle(p, b)
  \/ ListVehicles
  \/ \E p \in Plates, b \in Brands \cup {""} : EditVehicle(p, b)
  \/ \E p \in Plates : DeleteVehicle(p)
  \/ \E p \in Plates, c \in ClientIds, d \in MenuDates :
       Len(rentals) < MaxRoleRentals /\ CreateRental(p, c, d[1], d[2])
  \/ ListRentals
  \/ \E p \in Plates, c \in ClientIds : Deliver(p, c)
  \/ \E p \in Plates, c \in ClientIds : Receive(p, c)

SpecRoles == Init /\ [][NextRoles]_vars

(* --------------- interruption between the two store writes -------------- *)

\* create_rental interrupted (the process is killed) after save_rentals and
\* before save_vehicles: the new record is on disk, the vehicle store is as it
\* was, and the run is over.
CreateRentalInterrupted(plate, typed, start_date, end_date) ==
  /\ pc = "menu_rentals"
  /\ ~ListVehiclesRaises(vehicles)
  /\ LET client_id == ResolveClientId(logged_user, typed)
         i == FindVehicle(vehicles, plate)
     IN  /\ i # 0
         /\ StateOf(vehicles[i]) # "RENTADO"
         /\ Len(rentals) < MaxRentals
         /\ AcceptsStartDate(start_date)
         /\ AcceptsEndDate(end_date, start_date)
         /\ rentals' = Append(rentals,
                              NewRental(plate, client_id, start_date, end_date))
         /\ last' = Report("create_rental", "interrupted", plate, client_id)
  /\ vehicles' = vehicles
  /\ pc' = "crashed"
  /\ UNCHANGED <<logged_user, attemps, running, log, entered>>

\* update_rental_status("ACTIVO", "DEVUELTO") interrupted after save_rentals
\* and before save_vehicles.
ReceiveInterrupted(plate, client) ==
  /\ pc = "menu_rentals"
  /\ logged_user.rol \in Staff
  /\ LET i == FirstMatch(rentals, plate, client, ReceiveTransition[1])
     IN  /\ i # 0
         /\ rentals' = SetRentalState(rentals, i, ReceiveTransition[2])
  /\ last' = Report("update_" \o ReceiveTransition[2], "interrupted", plate, client)
  /\ vehicles' = vehicles
  /\ pc' = "crashed"
  /\ UNCHANGED <<logged_user, attemps, running, log, entered>>

NextCrash ==
  \/ \E cred \in Users : Login(cred)
  \/ MainToRentals
  \/ MainExit
  \/ BackToMain
  \/ Start
  \/ \E p \in Plates, c \in ClientIds, d \in MenuDates :
       CreateRental(p, c, d[1], d[2])
  \/ \E p \in Plates, c \in ClientIds, d \in MenuDates :
       CreateRentalInterrupted(p, c, d[1], d[2])
  \/ \E p \in Plates, c \in ClientIds : Deliver(p, c)
  \/ \E p \in Plates, c \in ClientIds : Receive(p, c)
  \/ \E p \in Plates, c \in ClientIds : ReceiveInterrupted(p, c)

SpecCrash == Init /\ [][NextCrash]_vars

(* ------------- two sessions running update_rental_status --------------- *)

\* Two staff sessions, each its own process at menu_rentals, share the two
\* store files.  running[s] holds the local variables of the call of
\* update_rental_status in session s.  The stores at the start are those two
\* create_rental calls leave: both vehicles RENTADO, a PREPARADO rental each.
InitRace ==
  /\ vehicles = << [StoredVehicle("AAA111") EXCEPT !.state = "RENTADO"],
                   [StoredVehicle("BBB222") EXCEPT !.state = "RENTADO"] >>
  /\ rentals = << NewRental("AAA111", "1001", "2025-01-01", "2025-01-05"),
                  NewRental("BBB222", "1002", "2025-01-01", "2025-01-05") >>
  /\ logged_user = None
  /\ attemps = 1
  /\ pc = "login"
  /\ last = NoReport
  /\ running = NoHandlers
  /\ log = << >>
  /\ entered = NoEntry

\* The list a session's loop would go through if it read the store again.
LoadedRentalsFresh(s) == rentals

\* The list the loop of update_rental_status goes through: the one the
\* session loaded when the call began.
LoadedRentals(s) == running[s].rentals

\* Session s picks option 3 or 4: update_rental_status loads both stores and
\* waits at the plate prompt.
RaceLoad(s, transition) ==
  /\ running[s].at = "menu"
  /\ running' = [running EXCEPT ![s] =
                   [at |-> "loaded", rentals |-> rentals, vehicles |-> vehicles,
                    plate |-> "-", client |-> "-",
                    from_status |-> transition[1], to_status |-> transition[2],
                    result |-> "-"]]
  /\ UNCHANGED <<vehicles, rentals, logged_user, attemps, pc, last, log, entered>>

\* Session s has typed plate and client id: the loop searches the loaded list
\* and, on a match, save_rentals writes the whole loaded list with the one
\* state changed.
RaceSaveRentals(s, plate, client) ==
  /\ running[s].at = "loaded"
  /\ LET mine == LoadedRentals(s)
         i == FirstMatch(mine, plate, client, running[s].from_status)
         to_status == running[s].to_status
     IN  IF i = 0
           THEN /\ rentals' = rentals
                /\ running' = [running EXCEPT ![s] =
                                 [Idle EXCEPT !.plate = plate, !.client = client,
                                              !.to_status = to_status,
                                              !.result = "not_found"]]
           ELSE /\ rentals' = SetRentalState(mine, i, to_status)
                /\ running' = [running EXCEPT ![s] =
                     IF to_status = "DEVUELTO"
                       THEN [running[s] EXCEPT !.at = "saved_rentals",
                                               !.rentals = SetRentalState(mine, i, to_status),
                                               !.plate = plate, !.client = client]
                       ELSE [Idle EXCEPT !.plate = plate, !.client = client,
                                         !.to_status = to_status, !.result = "ok"]]
  /\ UNCHANGED <<vehicles, logged_user, attemps, pc, last, log, entered>>

\* Session s, returning a vehicle, looks it up in the loaded vehicle list and
\* save_vehicles writes the whole loaded list.
RaceSaveVehicles(s) ==
  /\ running[s].at = "saved_rentals"
  /\ LET j == FindVehicle(running[s].vehicles, running[s].plate)
         report == [Idle EXCEPT !.plate = running[s].plate,
                                !.client = running[s].client,
                                !.to_status = running[s].to_status]
     IN  IF j = 0
           THEN /\ vehicles' = vehicles
                /\ running' = [running EXCEPT ![s] =
                                 [report EXCEPT !.at = "crashed", !.result = "TypeError"]]
           ELSE /\ vehicles' = SetVehicleState(running[s].vehicles, j, "DISPONIBLE")
                /\ running' = [running EXCEPT ![s] = [report EXCEPT !.result = "ok"]]
  /\ UNCHANGED <<rentals, logged_user, attemps, pc, last, log, entered>>

NextRace ==
  \/ \E s \in Sessions, t \in {DeliverTransition, ReceiveTransition} : RaceLoad(s, t)
  \/ \E s \in Sessions, p \in Plates, c \in ClientIds : RaceSaveRentals(s, p, c)
  \/ \E s \in Sessions : RaceSaveVehicles(s)

SpecRace == InitRace /\ [][NextRace]_vars

(* --------------------- login with typed credentials --------------------- *)

\* Largest number of lines of bitacora.txt followed in the model.
MaxLog == 3

\* self.users + self.clients in list order, each record with its password.
\* The last record is a client whose user name is that of a user.
Accounts ==
  << [record |-> [user |-> "admin", id_user |-> "9001", rol |-> "administrador"],
      password |-> "a1"],
     [record |-> [user |-> "clara", id_user |-> "1001", rol |-> "cliente"],
      password |-> "c1"],
     [record |-> [user |-> "admin", id_user |-> "1002", rol |-> "cliente"],
      password |-> "c1"] >>

\* Texts typed at the "Usuario" and "Contraseña" prompts.
TypedUsers == {"admin", "clara", "nobody"}

TypedPasswords == {"a1", "c1", ""}

\* A matching that looks at the user name alone.
MatchAccountByUser(user, password) ==
  LET I == {i \in 1..Len(Accounts) : Accounts[i].record.user = user}
  IN  IF I = {} THEN 0 ELSE Min(I)

\* The loop of login: the first record whose user and password are both the
\* typed ones; 0 for none.
MatchAccount(user, password) ==
  LET I == {i \in 1..Len(Accounts) : /\ Accounts[i].record.user = user
                                      /\ Accounts[i].password = password}
  IN  IF I = {} THEN 0 ELSE Min(I)

\* One pass of the loop of Sistema.login with the typed user and password.
\* On a match login returns and iniciar logs ENTRADA and enters the main
\* menu; otherwise the attempt is counted, and after the third the access is
\* denied and iniciar ends.
LoginAttempt(user, password) ==
  /\ pc = "login"
  /\ attemps <= 3
  /\ entered' = [user |-> user, password |-> password]
  /\ LET i == MatchAccount(user, password)
     IN  IF i # 0
           THEN /\ Len(log) < MaxLog
                /\ logged_user' = Accounts[i].record
                /\ log' = Append(log, <<Accounts[i].record.user, "ENTRADA">>)
                /\ pc' = "main"
                /\ attemps' = attemps
                /\ last' = Report("login", "ok", "-", "-")
           ELSE /\ logged_user' = logged_user
                /\ log' = log
                /\ attemps' = attemps + 1
                /\ pc' = IF attemps + 1 <= 3 THEN "login" ELSE "denied"
                /\ last' = Report("login", "rejected", "-", "-")
  /\ UNCHANGED <<vehicles, rentals, running>>

\* "Salir del sistema" of menu_principal: SALIDA is logged and the loop ends.
ExitLogged ==
  /\ pc = "main"
  /\ Len(log) < MaxLog
  /\ log' = Append(log, <<logged_user.user, "SALIDA">>)
  /\ pc' = "exited"
  /\ last' = Report("menu", "exit", "-", "-")
  /\ UNCHANGED <<vehicles, rentals, logged_user, attemps, running, entered>>

NextLogin ==
  \/ \E u \in TypedUsers, w \in TypedPasswords : LoginAttempt(u, w)
  \/ MainToRentals
  \/ MainToClients
  \/ BackToMain
  \/ BackFromRegistry
  \/ ListRentals
  \/ ExitLogged
  \/ Start

SpecLogin == Init /\ [][NextLogin]_vars

(* ------------------------------ claims --------------------------------- *)

\* Rentals that are not DEVUELTO and reference the plate.
OpenRentals(plate) ==
  {i \in 1..Len(rentals) : rentals[i].plate = plate /\ rentals[i].state # "DEVUELTO"}

\* The vehicle record with the plate has the state value.
VehicleHasState(vs, plate, value) ==
  \E i \in 1..Len(vs) : vs[i].plate = plate /\ vs[i].state = value

IsUpdate(report) == report.op \in {"update_ACTIVO", "update_DEVUELTO"}

\* The from_status of the transition a report is about.
FromOf(report) == IF report.op = "update_ACTIVO" THEN "PREPARADO" ELSE "ACTIVO"

\* Some rental record matches the plate, client and from_status of a report.
SomeRentalMatches(rs, report) ==
  \E i \in 1..Len(rs) :
    /\ rs[i].plate = report.plate
    /\ rs[i].id_client = report.client
    /\ rs[i].state = FromOf(report)

\* C1: in every persisted state a vehicle's state is RENTADO if and only if
\* exactly one rental that is not DEVUELTO references its plate.
C1_RentedIffOneOpenRental ==
  \A i \in 1..Len(vehicles) :
    (vehicles[i].state = "RENTADO") <=>
      (Cardinality(OpenRentals(vehicles[i].plate)) = 1)

\* C2: a rental's state only ever changes PREPARADO -> ACTIVO -> DEVUELTO,
\* one step at a time; it never moves backward, never skips ACTIVO, and a
\* DEVUELTO rental never changes again.
C2_RentalStateOrder ==
  [][\A i \in 1..Len(rentals) :
       /\ i <= Len(rentals')
       /\ \/ rentals'[i].state = rentals[i].state
          \/ <<rentals[i].state, rentals'[i].state>> \in
               {<<"PREPARADO", "ACTIVO">>, <<"ACTIVO", "DEVUELTO">>}]_vars

\* A rental went through its whole life and was just received.
C2_Witness ==
  /\ last.op = "update_DEVUELTO"
  /\ last.result = "ok"
  /\ \E i \in 1..Len(rentals) :
       rentals[i].plate = last.plate /\ rentals[i].state = "DEVUELTO"

\* C3: when create_rental succeeds for a plate, the persisted vehicle with
\* that plate is RENTADO and the rental store is the old store with exactly
\* one record appended, which is PREPARADO and references that plate.
C3_CreateRentalEffect ==
  [][(last'.op = "create_rental" /\ last'.result = "ok") =>
       /\ Len(rentals') = Len(rentals) + 1
       /\ SubSeq(rentals', 1, Len(rentals)) = rentals
       /\ rentals'[Len(rentals')].state = "PREPARADO"
       /\ rentals'[Len(rentals')].plate = last'.plate
       /\ VehicleHasState(vehicles', last'.plate, "RENTADO")]_vars

\* create_rental has just succeeded on top of an older rental record.
C3_Witness ==
  /\ last.op = "create_rental"
  /\ last.result = "ok"
  /\ Len(rentals) = 2
  /\ rentals[2].plate = last.plate

\* C4: create_rental fails with Unavailable when the target vehicle's state is
\* RENTADO and succeeds when the target vehicle exists with the state
\* DISPONIBLE, no state, or any other value.
C4_CreateRentalOutcome ==
  [][(last'.op = "create_rental" /\ pc = "menu_rentals"
        /\ FindVehicle(vehicles, last'.plate) # 0) =>
       LET v == vehicles[FindVehicle(vehicles, last'.plate)]
       IN  IF v.state = "RENTADO"
             THEN last'.result = "unavailable"
             ELSE last'.result = "ok"]_vars

\* C5: when update_rental_status moves a rental to DEVUELTO, the persisted
\* vehicle with the rental's plate is DISPONIBLE afterwards.
C5_ReturnFreesVehicle ==
  [][\A i \in 1..Len(rentals) :
       (rentals[i].state # "DEVUELTO" /\ rentals'[i].state = "DEVUELTO") =>
         VehicleHasState(vehicles', rentals[i].plate, "DISPONIBLE")]_vars

\* C6: every vehicle registered by create_vehicle is persisted with
\* state = DISPONIBLE.
C6_CreatedVehicleDisponible ==
  (last.op = "create_vehicle" /\ last.result = "ok") =>
    VehicleHasState(vehicles, last.plate, "DISPONIBLE")

\* C7: no menu operation ends the session with an unhandled failure; every
\* error condition returns control to the menu loop.
C7_NoUnhandledFailure == pc # "crashed"

\* C8: when update_rental_status finds no rental matching plate, client id
\* and from_status, it reports not-found and leaves both stores as they were.
C8_NoMatchNoEffect ==
  [][(IsUpdate(last') /\ pc = "menu_rentals" /\ ~SomeRentalMatches(rentals, last')) =>
       /\ last'.result = "not_found"
       /\ rentals' = rentals
       /\ vehicles' = vehicles]_vars

\* A transition was refused although the client has a rental of that plate.
C8_Witness ==
  /\ IsUpdate(last)
  /\ last.result = "not_found"
  /\ \E i \in 1..Len(rentals) :
       rentals[i].plate = last.plate /\ rentals[i].id_client = last.client

\* C9: update_rental_status("PREPARADO", "ACTIVO") changes a rental only the
\* first time: once it has succeeded the rental is ACTIVO and no record with
\* that plate and client id is left in PREPARADO, and a second run with the
\* same plate and client id reports not-found and changes no record.
C9_SecondDeliverFindsNothing ==
  /\ [](( last.op = "update_ACTIVO" /\ last.result = "ok") =>
         /\ ~SomeRentalMatches(rentals, last)
         /\ \E i \in 1..Len(rentals) :
              /\ rentals[i].plate = last.plate
              /\ rentals[i].id_client = last.client
              /\ rentals[i].state = "ACTIVO")
  /\ [][(/\ last.op = "update_ACTIVO" /\ last.result = "ok"
         /\ last'.op = "update_ACTIVO"
         /\ last'.plate = last.plate /\ last'.client = last.client) =>
          /\ last'.result = "not_found"
          /\ rentals' = rentals]_vars

\* The delivery was refused for a rental that is already ACTIVO.
C9_Witness ==
  /\ last.op = "update_ACTIVO"
  /\ last.result = "not_found"
  /\ \E i \in 1..Len(rentals) :
       /\ rentals[i].plate = last.plate
       /\ rentals[i].id_client = last.client
       /\ rentals[i].state = "ACTIVO"

\* C10: repeating a successful create_rental for the same plate with no
\* operation in between fails with Unavailable and adds no rental record.
C10_RepeatCreateUnavailable ==
  [][(/\ last.op = "create_rental" /\ last.result = "ok"
      /\ last'.op = "create_rental"
      /\ last'.plate = last.plate) =>
       /\ last'.result = "unavailable"
       /\ rentals' = rentals]_vars

\* The repeated request was refused: the plate's rental is still PREPARADO.
C10_Witness ==
  /\ last.op = "create_rental"
  /\ last.result = "unavailable"
  /\ Len(rentals) >= 1
  /\ rentals[Len(rentals)].plate = last.plate
  /\ rentals[Len(rentals)].state = "PREPARADO"

\* C11: create_rental checks its preconditions in order: a plate that matches
\* no vehicle is reported as not found, a RENTADO vehicle as unavailable, and
\* in both cases neither store is written.
C11_PreconditionOrder ==
  [][(last'.op = "create_rental" /\ pc = "menu_rentals") =>
       LET i == FindVehicle(vehicles, last'.plate)
       IN  /\ (i = 0) =>
                last'.result = "not_found" /\ UNCHANGED <<vehicles, rentals>>
           /\ (i # 0 /\ vehicles[i].state = "RENTADO") =>
                last'.result = "unavailable" /\ UNCHANGED <<vehicles, rentals>>]_vars

\* C12: the rental store only grows by appends: no step removes or reorders a
\* record, no step changes a field of an existing record other than state,
\* and only the transition operation changes a state.
C12_RentalsAppendOnly ==
  [][/\ Len(rentals') \in {Len(rentals), Len(rentals) + 1}
     /\ \A i \in 1..Len(rentals) :
          /\ [rentals'[i] EXCEPT !.state = rentals[i].state] = rentals[i]
          /\ rentals'[i].state # rentals[i].state => IsUpdate(last')]_vars

\* A transition was applied while the store holds another record.
C12_Witness ==
  /\ IsUpdate(last)
  /\ last.result = "ok"
  /\ Len(rentals) = 2
  /\ rentals[1].state # rentals[2].state

\* C13: every rental created in a cliente session has the session's own id as
\* its id_client, whatever is typed.
C13_ClienteRentsForSelf ==
  [][(last'.op = "create_rental" /\ last'.result = "ok"
        /\ logged_user.rol = "cliente") =>
       /\ Len(rentals') = Len(rentals) + 1
       /\ rentals'[Len(rentals')].id_client = logged_user.id_user]_vars

\* A cliente session has just registered a rental.
C13_Witness ==
  /\ logged_user.rol = "cliente"
  /\ last.op = "create_rental"
  /\ last.result = "ok"
  /\ rentals[Len(rentals)].id_client = logged_user.id_user

\* C14: list_rentals shows every rental record to a session that is not a
\* cliente and exactly the records with the session's own id to a cliente,
\* and it writes to no store.
C14_ListRentalsByRole ==
  /\ [](last.op = "list_rentals" =>
          ListedRentals(rentals, logged_user) =
            IF logged_user.rol # "cliente" THEN rentals
            ELSE SelectSeq(rentals, LAMBDA r : r.id_client = logged_user.id_user))
  /\ [][last'.op = "list_rentals" => UNCHANGED <<vehicles, rentals>>]_vars

\* A cliente lists while the store holds another client's rental and an own one.
C14_Witness ==
  /\ last.op = "list_rentals"
  /\ logged_user.rol = "cliente"
  /\ Len(ListedRentals(rentals, logged_user)) = 1
  /\ Len(rentals) = 2

\* C15: no two persisted vehicles have the same plate, and create_vehicle with
\* an existing plate is refused and leaves the vehicle store unchanged.
C15_PlateIsKey ==
  /\ [](\A i, j \in 1..Len(vehicles) :
          vehicles[i].plate = vehicles[j].plate => i = j)
  /\ [][(last'.op = "create_vehicle" /\ pc = "menu_vehicles"
           /\ \E i \in 1..Len(vehicles) : vehicles[i].plate = last'.plate) =>
          last'.result = "already_exists" /\ vehicles' = vehicles]_vars

\* A duplicate plate was refused while the store holds two vehicles.
C15_Witness ==
  /\ last.op = "create_vehicle"
  /\ last.result = "already_exists"
  /\ Len(vehicles) = 2

\* C18 (as stated): an administrative edit through edit_vehicle changes the
\* vehicle's state field: editing a vehicle that has an open rental makes it
\* DISPONIBLE.
C18_EditChangesState ==
  [][(/\ last'.op = "edit_vehicle" /\ last'.result = "ok"
      /\ pc = "menu_vehicles"
      /\ VehicleHasState(vehicles, last'.plate, "RENTADO")
      /\ OpenRentals(last'.plate) # {}) =>
       VehicleHasState(vehicles', last'.plate, "DISPONIBLE")]_vars

\* C18 (amended): edit_vehicle never changes a vehicle's state field, nor the
\* plates or the number of vehicles: a vehicle with an open rental is as
\* RENTADO after the edit as before it.
C18_EditKeepsState ==
  [][(last'.op = "edit_vehicle" /\ pc = "menu_vehicles") =>
       /\ Len(vehicles') = Len(vehicles)
       /\ \A i \in 1..Len(vehicles) :
            /\ vehicles'[i].plate = vehicles[i].plate
            /\ vehicles'[i].state = vehicles[i].state
            /\ vehicles'[i].estate = vehicles[i].estate
       /\ rentals' = rentals]_vars

\* A rented vehicle was edited: its brand changed and it is still RENTADO.
C18_Witness ==
  /\ last.op = "edit_vehicle"
  /\ last.result = "ok"
  /\ OpenRentals(last.plate) # {}
  /\ \E i \in 1..Len(vehicles) :
       /\ vehicles[i].plate = last.plate
       /\ vehicles[i].brand = "Mazda"
       /\ vehicles[i].state = "RENTADO"

\* A date text as the calendar day datetime.strptime reads from it.
DayOf(s) == ParseDate(s)

\* day a is later in the calendar than day b (year, month, day).
CalendarLater(a, b) ==
  \/ a[1] > b[1]
  \/ a[1] = b[1] /\ a[2] > b[2]
  \/ a[1] = b[1] /\ a[2] = b[2] /\ a[3] > b[3]

\* C16: create_rental accepts an end_date only when it is a valid calendar
\* date strictly later than start_date (an equal day is refused), so every
\* persisted rental has an end_date later in the calendar than its start_date.
C16_EndAfterStart ==
  \A i \in 1..Len(rentals) :
    /\ ValidateDate(rentals[i].start_date)
    /\ ValidateDate(rentals[i].end_date)
    /\ CalendarLater(DayOf(rentals[i].end_date), DayOf(rentals[i].start_date))

\* The operations of vehicle management (menu_vehicles).
VehicleOperations ==
  {"create_vehicle", "list_vehicles", "edit_vehicle", "delete_vehicle"}

\* The operations of client-registry management (menu_clients, staff part).
ClientManagement ==
  {"create_client", "list_clients", "edit_client", "delete_client"}

\* report is of an operation, or pc a menu, that only staff may reach.
Gated(report, at) ==
  \/ IsUpdate(report)
  \/ report.op \in UserOperations \cup VehicleOperations \cup ClientManagement
  \/ at \in {"menu_users", "menu_vehicles"}

\* C17: a cliente session never triggers a rental state transition and never
\* reaches user, vehicle or client-registry management; the sessions that do
\* are administrador and asistente sessions.  In every state whose last
\* operation or menu is a gated one the logged user is administrador or
\* asistente, and no step of a cliente session changes a rental's state.
C17_RoleGates ==
  /\ [](Gated(last, pc) => logged_user.rol \in {"administrador", "asistente"})
  /\ [][logged_user.rol = "cliente" =>
          /\ Len(rentals') >= Len(rentals)
          /\ \A i \in 1..Len(rentals) : rentals'[i].state = rentals[i].state]_vars

\* A cliente at the rentals menu has listed a rental of their own that waits
\* in PREPARADO for delivery, with its vehicle RENTADO.
C17_Witness ==
  /\ logged_user.rol = "cliente"
  /\ pc = "menu_rentals"
  /\ last.op = "list_rentals"
  /\ Len(rentals) = 1
  /\ rentals[1].state = "PREPARADO"
  /\ rentals[1].id_client = logged_user.id_user
  /\ VehicleHasState(vehicles, rentals[1].plate, "RENTADO")

\* The two stores agree on a plate: its vehicle is RENTADO with exactly one
\* rental that is not DEVUELTO, or not RENTADO with none.
Agree(plate) ==
  \A i \in 1..Len(vehicles) :
    vehicles[i].plate = plate =>
      Cardinality(OpenRentals(plate)) = IF vehicles[i].state = "RENTADO" THEN 1 ELSE 0

\* The vehicle is RENTADO and no open rental references it.
Stuck(plate) ==
  VehicleHasState(vehicles, plate, "RENTADO") /\ OpenRentals(plate) = {}

ReportedOk(s, plate, client, to_status) ==
  /\ running[s].at = "menu"
  /\ running[s].result = "ok"
  /\ running[s].plate = plate
  /\ running[s].client = client
  /\ running[s].to_status = to_status

\* C20: two sessions running update_rental_status on the same rental can both
\* read it in its pre-transition state and both write; both report success,
\* and each write is of the whole list the writer loaded, so the last write
\* replaces what the other session wrote.  A session that leaves the plate
\* prompt decides on the list it loaded, whatever the store holds by then,
\* and on a match the store becomes that list with the one state changed.
C20_LastWriterWins ==
  [][\A s \in Sessions :
       (running[s].at = "loaded" /\ running'[s].at # "loaded") =>
         LET i == FirstMatch(running[s].rentals, running'[s].plate,
                             running'[s].client, running[s].from_status)
         IN  /\ (i = 0) => (running'[s].result = "not_found" /\ rentals' = rentals)
             /\ (i # 0) =>
                  /\ rentals' = [running[s].rentals EXCEPT
                                   ![i].state = running[s].to_status]
                  /\ running'[s].result # "not_found"]_vars

\* Both sessions reported success for the delivery of the same rental; the
\* store holds the one change.
C20_Witness ==
  /\ ReportedOk(1, "AAA111", "1001", "ACTIVO")
  /\ ReportedOk(2, "AAA111", "1001", "ACTIVO")
  /\ rentals[1].state = "ACTIVO"
  /\ rentals[2].state = "PREPARADO"

\* The records of rs that match the plate, the client and the from_status of
\* a report, by position.
MatchingOf(rs, report) ==
  {i \in 1..Len(rs) : /\ rs[i].plate = report.plate
                       /\ rs[i].id_client = report.client
                       /\ rs[i].state = FromOf(report)}

\* C21: a successful update_rental_status changes exactly one rental record,
\* the first in stored order that matches plate, client_id and from_state;
\* every other record, later duplicates with the same plate, client_id and
\* state included, is left unchanged.
C21_FirstMatchOnly ==
  [][(IsUpdate(last') /\ last'.result = "ok" /\ pc = "menu_rentals") =>
       /\ MatchingOf(rentals, last') # {}
       /\ Len(rentals') = Len(rentals)
       /\ \A i \in 1..Len(rentals) :
            IF i = Min(MatchingOf(rentals, last'))
              THEN /\ rentals'[i].state # rentals[i].state
                   /\ rentals'[i] = [rentals[i] EXCEPT
                                       !.state = IF last'.op = "update_ACTIVO"
                                                   THEN "ACTIVO" ELSE "DEVUELTO"]
              ELSE rentals'[i] = rentals[i]]_vars

\* A delivery succeeded where two PREPARADO records had the same plate and
\* client: the first is ACTIVO, the later duplicate still PREPARADO.
C21_Witness ==
  /\ last.op = "update_ACTIVO"
  /\ last.result = "ok"
  /\ Len(rentals) = 2
  /\ rentals[1].plate = last.plate /\ rentals[2].plate = last.plate
  /\ rentals[1].id_client = last.client /\ rentals[2].id_client = last.client
  /\ rentals[1].state = "ACTIVO"
  /\ rentals[2].state = "PREPARADO"

\* C22: no double booking.  After any sequence of vehicle registry and rental
\* operations in single sessions, at most one rental in state PREPARADO or
\* ACTIVO references any given plate.
C22_NoDoubleBooking ==
  \A p \in Plates : Cardinality(OpenRentals(p)) <= 1

\* A rented vehicle was deleted and registered again while its rental was
\* open, and the next request to rent it ended in the KeyError of
\* list_vehicles: the plate still has its one open rental.
C22_Witness ==
  /\ last.op = "create_rental"
  /\ last.result = "KeyError"
  /\ VehicleHasState(vehicles, last.plate, NoKey)
  /\ Cardinality(OpenRentals(last.plate)) = 1

\* Some record of the loaded list has the user and the password entered.
EnteredMatches ==
  \E i \in 1..Len(Accounts) :
    /\ Accounts[i].record.user = entered.user
    /\ Accounts[i].password = entered.password

\* C23: login allows at most three credential attempts.  A session
\* (logged_user set, ENTRADA logged, main menu entered) is established only
\* when the entered user and password both match one record of the loaded
\* users-plus-clients list; after three failed attempts access is denied,
\* nothing is logged and no menu operation is reachable.
C23_LoginGate ==
  /\ [](/\ attemps \in 1..4
        /\ (pc = "login" => attemps <= 3 /\ logged_user = None)
        /\ (pc = "denied" => attemps = 4 /\ logged_user = None)
        /\ (logged_user # None =>
              \E i \in 1..Len(Accounts) :
                /\ Accounts[i].record = logged_user
                /\ Accounts[i].record.user = entered.user
                /\ Accounts[i].password = entered.password))
  /\ [][/\ (pc = "login" /\ pc' = "main") =>
             /\ EnteredMatches'
             /\ logged_user' # None
             /\ log' = Append(log, <<entered'.user, "ENTRADA">>)
        /\ (pc = "login" /\ pc' \in {"login", "denied"}) =>
             /\ ~EnteredMatches'
             /\ attemps' = attemps + 1
             /\ (pc' = "denied") <=> (attemps = 3)
             /\ log' = log
             /\ logged_user' = None
        /\ (pc = "login") => pc' \in {"login", "main", "denied"}
        /\ (pc = "denied") =>
             /\ pc' = "login" /\ attemps' = 1
             /\ UNCHANGED <<vehicles, rentals, log, logged_user>>]_vars

\* After a session of admin that was logged coming and going, a new run was
\* denied access at its third attempt, made with the user name of a record
\* and a password that is not its own; the log has the two old lines only.
C23_Witness ==
  /\ pc = "denied"
  /\ attemps = 4
  /\ entered = [user |-> "clara", password |-> "a1"]
  /\ log = << <<"admin", "ENTRADA">>, <<"admin", "SALIDA">> >>

====
